---- MODULE Spec2Model ----
(***************************************************************************)
(* State-machine model of GeometryDashGame (src/game.js): the game-state   *)
(* machine, the per-frame physics of update(), the jump handlers, the      *)
(* particle list, the parallax layers, the high-score store, and the page  *)
(* around the instance: initGame(), the global start/restart commands with *)
(* their retry timers, the frame loop and the visibility of the document.  *)
(*                                                                         *)
(* Units.  Horizontal quantities (cameraX, obstacle x/width, scrollSpeed)  *)
(* are whole pixels, as in the source.  Vertical quantities (player.y,     *)
(* velocityY, groundY, obstacle y/height) are kept in twentieths of a      *)
(* pixel, so that gravity 0.8 and holdJumpBonus 0.35 are the integers 16   *)
(* and 7; Px(n) converts n pixels.  Rotation is in whole degrees.          *)
(* Parallax x and size are in half pixels (Hp(n) converts n pixels), so    *)
(* that the per-frame shifts 1, 2.5 and 5 px are integers.                 *)
(*                                                                         *)
(* update() declares `const logicalHeight` twice in one function body      *)
(* (lines 520 and 582); both initialisers are the same expression and the  *)
(* model reads them as one value.                                          *)
(***************************************************************************)
EXTENDS Integers, Sequences, FiniteSets, TLC

VARIABLES gameState,      \* 'start' | 'playing' | 'dead' | 'win'
          cameraX,        \* this.cameraX (px)
          score,          \* this.score
          distance,       \* this.distance
          player,         \* this.player: y, velocityY, rotation, rotationSpeed, isJumping, groundY
          jumpHeld,       \* this.jumpHeld
          jumpHeldTime,   \* this.jumpHeldTime
          particles,      \* this.particles: sequence of [life, maxLife]
          highScore,      \* this.highScore (a JS number, possibly NaN)
          store,          \* localStorage item 'geometryDashHighScore'
          storageThrows,  \* localStorage access throws (storage disabled)
          canvasHeight,   \* canvas.offsetHeight (px)
          jumps,          \* number of jump impulses applied so far
          parallax,       \* the tracked elements of this.parallaxLayers: [x, size, speed]
          indicator,      \* the element 'newHighScore' is displayed
          audio,          \* this.audioContext / audioContextReady, pending resume()
                          \* promises and playBeat timers
          page,           \* the page: canvas element, gameInstance, frame loop, timers,
                          \* document.hidden, reported diagnostics, and the canvas
                          \* background of script.js
          twin,           \* a second instance on a page of its own, given the same
                          \* events and frames (a placeholder when there is none)
          probe           \* arguments and result of a method exercised on its own:
                          \* checkCollision(), or the platform loop of update()

vars == <<gameState, cameraX, score, distance, player, jumpHeld, jumpHeldTime,
          particles, highScore, store, storageThrows, canvasHeight, jumps,
          parallax, indicator, audio, page, twin, probe>>

\* what the events of the one page leave alone
aside == <<twin, probe>>

----------------------------------------------------------------------------
(* Bounds of the model *)

\* handleJumpStart() calls in the hold branch are explored up to this counter value
MaxJumpHeldTime == 19
\* jump impulses per session
MaxJumps == 1
\* scores passed to saveHighScore() when the store is exercised on its own
MaxSaved == 45
\* frame periods that pass without a frame callback while the page is hidden
MaxMissed == 1
\* pending retry timers of each global command
MaxTimers == 1
\* px the tracked background element may have drifted when a run starts
MaxParallaxDrift == 74
\* resume() promises of the audio context pending at one time
MaxResumes == 1
\* playBeat timers pending at one time
MaxBeats == 2
\* frames of a run and hold-branch calls of a jump, in the sessions that are
\* resized during a run
MaxFlightFrames == 8
MaxFlightHolds == 2
\* width of the background canvas, in the units of its particle's position
MaxBackdropWidth == 12
\* platforms in the list given to the platform loop of update()
MaxPlatforms == 2
\* largest coordinate and largest side of the rectangles given to checkCollision()
MaxCoord == 3
MaxSide == 2

----------------------------------------------------------------------------
(* Program constants *)

scrollSpeed == 5
gravity == 16            \* 0.8 px per frame, in twentieths
jumpPower == -16         \* px per frame
maxJumpHold == 300
holdJumpBonus == 7       \* 0.35 px per frame, in twentieths
playerX == 100
playerWidth == 30
playerHeight == 30
groundHeight == 50
defaultHeight == 600
jumpRotationSpeed == 15
rollRotation == 5
trailLife == 20
deathLife == 30
deathBurst == 20
maxParticles == 50

Px(n) == n * 20
Hp(n) == n * 2


----------------------------------------------------------------------------
(* JS numbers and strings as far as the high-score code uses them *)

Number(n) == [isNaN |-> FALSE, value |-> n]
NaN == [isNaN |-> TRUE, value |-> 0]

\* JS `a > b` for a finite number a and a number b that may be NaN
GreaterThan(a, b) == ~b.isNaN /\ a > b.value

\* strings are sequences of one-character strings
Digits == <<"0", "1", "2", "3", "4", "5", "6", "7", "8", "9">>
IsDigit(c) == \E d \in 1..10 : Digits[d] = c
DigitValue(c) == (CHOOSE d \in 1..10 : Digits[d] = c) - 1

\* Number.prototype.toString() of an integer
RECURSIVE NumberToString(_)
NumberToString(n) ==
    IF n < 0 THEN <<"-">> \o NumberToString(-n)
    ELSE IF n < 10 THEN <<Digits[n + 1]>>
    ELSE NumberToString(n \div 10) \o <<Digits[(n % 10) + 1]>>

\* value of the longest prefix of decimal digits of s, NaN when it is empty
RECURSIVE ParseDigits(_, _, _)
ParseDigits(s, acc, any) ==
    IF s # <<>> /\ IsDigit(Head(s))
    THEN ParseDigits(Tail(s), acc * 10 + DigitValue(Head(s)), TRUE)
    ELSE IF any THEN Number(acc) ELSE NaN

RECURSIVE TrimStart(_)
TrimStart(s) == IF s # <<>> /\ Head(s) = " " THEN TrimStart(Tail(s)) ELSE s

\* parseInt(s, 10)
ParseInt(s) ==
    LET t == TrimStart(s) IN
    IF t # <<>> /\ Head(t) = "-"
    THEN LET r == ParseDigits(Tail(t), 0, FALSE) IN
         IF r.isNaN THEN NaN ELSE Number(-r.value)
    ELSE IF t # <<>> /\ Head(t) = "+" THEN ParseDigits(Tail(t), 0, FALSE)
    ELSE ParseDigits(t, 0, FALSE)

\* a localStorage slot: absent, or a string
NoItem == [has |-> FALSE, text |-> <<>>]
Item(text) == [has |-> TRUE, text |-> text]

----------------------------------------------------------------------------
(* createLevel(): the authored level, for a canvas of logical height h *)

Obstacle(x, groundY, w, h) ==
    [x |-> x, y |-> groundY - Px(h), width |-> w, height |-> Px(h)]

CreateObstacles(groundY) ==
       [i \in 1..4  |-> Obstacle(500 + (i - 1) * 120, groundY, 35, 25)]
    \o [i \in 1..5  |-> Obstacle(980 + (i - 1) * 100, groundY, 40, 30)]
    \o [i \in 1..6  |-> Obstacle(1480 + (i - 1) * 90, groundY, 35,
                                 IF (i - 1) % 2 = 0 THEN 25 ELSE 35)]
    \o [i \in 1..8  |-> Obstacle(2020 + (i - 1) * 80, groundY, 30, 30)]
    \o [i \in 1..7  |-> Obstacle(2660 + (i - 1) * 85, groundY, 35,
                                 20 + ((i - 1) % 3) * 10)]
    \o [i \in 1..10 |-> Obstacle(3255 + (i - 1) * 70, groundY, 32, 28)]

CreateLevel(h) ==
    [width |-> 3955 + 300,
     groundHeight |-> groundHeight,
     obstacles |-> CreateObstacles(Px(h) - Px(groundHeight)),
     platforms |-> <<>>,
     spikes |-> <<>>]

\* this.level: built once by the constructor, for the logical height the
\* canvas has then (600 when the layout is not ready), and never changed
level == CreateLevel(defaultHeight)

\* player.groundY as createLevel() and resizeCanvas() compute it
GroundYFor(h) == Px(h) - Px(groundHeight) - Px(playerHeight)

----------------------------------------------------------------------------
(* The game instance as one record; every method is a function on it *)

This ==
    [gameState |-> gameState, cameraX |-> cameraX, score |-> score,
     distance |-> distance, player |-> player, jumpHeld |-> jumpHeld,
     jumpHeldTime |-> jumpHeldTime, particles |-> particles,
     highScore |-> highScore, store |-> store,
     storageThrows |-> storageThrows, canvasHeight |-> canvasHeight,
     jumps |-> jumps, parallax |-> parallax, indicator |-> indicator,
     audio |-> audio]

Becomes(g) ==
    /\ gameState' = g.gameState
    /\ cameraX' = g.cameraX
    /\ score' = g.score
    /\ distance' = g.distance
    /\ player' = g.player
    /\ jumpHeld' = g.jumpHeld
    /\ jumpHeldTime' = g.jumpHeldTime
    /\ particles' = g.particles
    /\ highScore' = g.highScore
    /\ store' = g.store
    /\ storageThrows' = g.storageThrows
    /\ canvasHeight' = g.canvasHeight
    /\ jumps' = g.jumps
    /\ parallax' = g.parallax
    /\ indicator' = g.indicator
    /\ audio' = g.audio

\* canvas.offsetHeight || 600
LogicalHeight(g) == IF g.canvasHeight = 0 THEN defaultHeight ELSE g.canvasHeight

\* loadHighScore(): getItem, then `stored ? parseInt(stored, 10) : 0`
LoadHighScore(g) ==
    IF g.storageThrows THEN Number(0)
    ELSE IF g.store.has /\ g.store.text # <<>> THEN ParseInt(g.store.text)
    ELSE Number(0)

\* saveHighScore(score) that writes this.highScore instead of its argument
SaveHighScore_WritesField(g, n) ==
    IF g.storageThrows THEN g
    ELSE [g EXCEPT !.store = Item(NumberToString(g.highScore.value))]

\* saveHighScore(score): setItem(score.toString()), exceptions swallowed
SaveHighScore(g, n) ==
    IF g.storageThrows THEN g
    ELSE [g EXCEPT !.store = Item(NumberToString(n))]

\* the high-score update of die() and win() without the comparison
CommitHighScore_Always(g) ==
    SaveHighScore([g EXCEPT !.highScore = Number(g.score)], g.score)

\* `if (this.score > this.highScore) { highScore = score; saveHighScore(highScore) }`
CommitHighScore(g) ==
    IF GreaterThan(g.score, g.highScore)
    THEN SaveHighScore([g EXCEPT !.highScore = Number(g.score)], g.score)
    ELSE g

\* the audio fields before initAudio(), on a page whose AudioContext
\* constructor is missing or throws ("none"), or gives a context in the
\* state 'suspended' or 'running'.
\*   state:    audioContext.state ("none" when there is no context to ask)
\*   context:  this.audioContext is an object (not null)
\*   ready:    this.audioContextReady
\*   resuming: resume() promises not yet settled
\*   beats:    setTimeout(playBeat, 500) timers pending
NoAudio(state) ==
    [state |-> state, context |-> FALSE, ready |-> FALSE, resuming |-> 0, beats |-> 0]

\* initAudio()
InitAudio(g) ==
    [g EXCEPT !.audio.context = g.audio.state # "none",
              !.audio.ready = g.audio.state = "running"]

\* startBackgroundMusic(): the first playBeat() call, which sets the timer of the next
StartBackgroundMusic(g) ==
    IF ~g.audio.context \/ ~g.audio.ready THEN g
    ELSE IF g.gameState \in {"playing", "start"}
    THEN [g EXCEPT !.audio.beats = g.audio.beats + 1]
    ELSE g

\* playBeat() called by its timer: it returns outside Playing and Start, and
\* otherwise sounds and sets the timer again
PlayBeat(g) ==
    IF g.gameState \notin {"playing", "start"}
    THEN [g EXCEPT !.audio.beats = g.audio.beats - 1]
    ELSE g

\* resumeAudioContext(): resume() is called on a suspended context
ResumeAudioContext(g) ==
    IF g.audio.context /\ g.audio.state = "suspended"
    THEN [g EXCEPT !.audio.resuming = g.audio.resuming + 1]
    ELSE g

\* the `then` callback of resume()
ResumeResolved(g) ==
    LET h == [g EXCEPT !.audio.resuming = g.audio.resuming - 1,
                       !.audio.state = "running",
                       !.audio.ready = TRUE]
    IN IF h.gameState = "playing" THEN StartBackgroundMusic(h) ELSE h

\* the `catch` callback of resume()
ResumeRejected(g) == [g EXCEPT !.audio.resuming = g.audio.resuming - 1]

\* playJumpSound() and playDeathSound(): an oscillator sounds when the context
\* is ready; no field of the instance changes
PlaySound(g) == g

\* startGame() without its `already playing` guard
StartGame_NoGuard(g) ==
    [g EXCEPT !.gameState = "playing",
              !.cameraX = 0,
              !.player = [g.player EXCEPT !.y = g.player.groundY,
                                          !.velocityY = 0,
                                          !.isJumping = FALSE,
                                          !.rotation = 0],
              !.score = 0,
              !.distance = 0,
              !.particles = <<>>]

\* startGame() that leaves the particles of the finished run
StartGame_KeepsParticles(g) ==
    IF g.gameState = "playing" THEN g
    ELSE [g EXCEPT !.gameState = "playing",
                   !.cameraX = 0,
                   !.player = [g.player EXCEPT !.y = g.player.groundY,
                                               !.velocityY = 0,
                                               !.isJumping = FALSE,
                                               !.rotation = 0],
                   !.score = 0,
                   !.distance = 0]

\* startGame()
StartGame(g) ==
    IF g.gameState = "playing" THEN g
    ELSE StartBackgroundMusic(
           [g EXCEPT !.gameState = "playing",
                     !.cameraX = 0,
                     !.player = [g.player EXCEPT !.y = g.player.groundY,
                                                 !.velocityY = 0,
                                                 !.isJumping = FALSE,
                                                 !.rotation = 0],
                     !.score = 0,
                     !.distance = 0,
                     !.particles = <<>>])

\* restart() that hides the game-over screen but keeps the finished run
Restart_KeepsRun(g) ==
    IF g.gameState = "playing" THEN g ELSE [g EXCEPT !.gameState = "playing"]

\* restart(): startGame() and hideGameOverScreen()
Restart(g) == StartGame(g)

DeathParticle == [life |-> deathLife, maxLife |-> deathLife]
TrailParticle == [life |-> trailLife, maxLife |-> trailLife]

\* showGameOverScreen(): the new-high-score element is displayed when
\* `this.score > this.loadHighScore()`
ShowGameOverScreen(g) ==
    IF GreaterThan(g.score, LoadHighScore(g))
    THEN [g EXCEPT !.indicator = TRUE]
    ELSE g

\* die() without its `already dead` guard
Die_NoGuard(g) ==
    CommitHighScore(
      [g EXCEPT !.gameState = "dead",
                !.particles = g.particles \o [i \in 1..deathBurst |-> DeathParticle]])

\* die()
Die(g) ==
    IF g.gameState = "dead" THEN g
    ELSE LET h == PlaySound([g EXCEPT !.gameState = "dead"]) IN
         ShowGameOverScreen(
           CommitHighScore(
             [h EXCEPT !.particles = h.particles \o [i \in 1..deathBurst |-> DeathParticle]]))

\* win()
Win(g) == CommitHighScore([g EXCEPT !.gameState = "win"])

\* checkCollision() with non-strict comparisons
CheckCollision_Touching(x1, y1, w1, h1, x2, y2, w2, h2) ==
    /\ x1 <= x2 + w2
    /\ x1 + w1 >= x2
    /\ y1 <= y2 + h2
    /\ y1 + h1 >= y2

\* checkCollision(x1, y1, w1, h1, x2, y2, w2, h2)
CheckCollision(x1, y1, w1, h1, x2, y2, w2, h2) ==
    /\ x1 < x2 + w2
    /\ x1 + w1 > x2
    /\ y1 < y2 + h2
    /\ y1 + h1 > y2

\* the platform loop of isOnGround()
OnSomePlatform(g) ==
    \E i \in 1..Len(level.platforms) :
        LET platform == level.platforms[i]
            platformScreenX == platform.x - g.cameraX
            d == (g.player.y + Px(playerHeight)) - platform.y
        IN /\ platformScreenX < playerX + playerWidth
           /\ platformScreenX + platform.width > playerX
           /\ (IF d < 0 THEN -d ELSE d) < Px(5)
           /\ g.player.velocityY >= 0

\* isOnGround()
IsOnGround(g) ==
    \/ g.player.y + Px(playerHeight) >= g.player.groundY - Px(2)
    \/ OnSomePlatform(g)

\* the hold branch without the hold-window test
HoldBoost_NoCap(g) ==
    [g EXCEPT !.jumpHeldTime = g.jumpHeldTime + 1,
              !.player.velocityY = g.player.velocityY + holdJumpBonus]

\* the hold branch of handleJumpStart(): `jumpHeldTime < maxJumpHold / 16`
HoldBoost(g) ==
    LET t == g.jumpHeldTime + 1 IN
    [g EXCEPT !.jumpHeldTime = t,
              !.player.velocityY = IF t * 16 < maxJumpHold
                                   THEN g.player.velocityY + holdJumpBonus
                                   ELSE g.player.velocityY]

\* the jump branch with the impulse added to the current velocity
JumpImpulse_Added(g) ==
    [g EXCEPT !.player.velocityY = g.player.velocityY + Px(jumpPower) + gravity,
              !.player.isJumping = TRUE,
              !.jumpHeld = TRUE,
              !.jumpHeldTime = 0,
              !.player.rotationSpeed = jumpRotationSpeed]

\* the jump branch whose sound call comes first and fails without a ready context
JumpImpulse_NeedsAudio(g) ==
    IF ~g.audio.context \/ ~g.audio.ready THEN g
    ELSE [g EXCEPT !.player.velocityY = Px(jumpPower),
                   !.player.isJumping = TRUE,
                   !.jumpHeld = TRUE,
                   !.jumpHeldTime = 0,
                   !.player.rotationSpeed = jumpRotationSpeed]

\* the jump branch of handleJumpStart()
JumpImpulse(g) ==
    PlaySound([g EXCEPT !.player.velocityY = Px(jumpPower),
                        !.player.isJumping = TRUE,
                        !.jumpHeld = TRUE,
                        !.jumpHeldTime = 0,
                        !.player.rotationSpeed = jumpRotationSpeed])

\* handleJumpStart() that restarts from Win as it does from Dead
HandleJumpStart_WinRestarts(g) ==
    IF g.gameState = "start" THEN StartGame(g)
    ELSE IF g.gameState \in {"dead", "win"} THEN Restart(g)
    ELSE IF ~g.player.isJumping /\ IsOnGround(g) THEN JumpImpulse(g)
    ELSE IF g.player.isJumping /\ g.jumpHeld THEN HoldBoost(g)
    ELSE g

\* handleJumpStart() whose Start branch does not return
HandleJumpStart_FallsThrough(g) ==
    LET h == IF g.gameState = "start" THEN StartGame(g) ELSE g IN
    IF g.gameState = "dead" THEN Restart(g)
    ELSE IF h.gameState # "playing" THEN h
    ELSE IF ~h.player.isJumping /\ IsOnGround(h) THEN JumpImpulse(h)
    ELSE IF h.player.isJumping /\ h.jumpHeld THEN HoldBoost(h)
    ELSE h

\* handleJumpStart()
HandleJumpStart(g) ==
    LET h == IF ~g.audio.ready /\ g.audio.context THEN ResumeAudioContext(g) ELSE g IN
    IF h.gameState = "start" THEN StartGame(h)
    ELSE IF h.gameState = "dead" THEN Restart(h)
    ELSE IF h.gameState # "playing" THEN h
    ELSE IF ~h.player.isJumping /\ IsOnGround(h) THEN JumpImpulse(h)
    ELSE IF h.player.isJumping /\ h.jumpHeld THEN HoldBoost(h)
    ELSE h

\* the mousedown listener of the canvas
MouseDown(g) ==
    IF g.gameState = "start" THEN StartGame(g) ELSE HandleJumpStart(g)

\* handleJumpEnd() that resets the hold counter but leaves the held flag
HandleJumpEnd_KeepsHeld(g) == [g EXCEPT !.jumpHeldTime = 0]

\* handleJumpEnd()
HandleJumpEnd(g) == [g EXCEPT !.jumpHeld = FALSE, !.jumpHeldTime = 0]

----------------------------------------------------------------------------
(* update() and its parts *)

\* `cameraX += scrollSpeed`
AdvanceCamera(c) == c + scrollSpeed

\* `velocityY += gravity; y += velocityY`
Integrate(p) ==
    [p EXCEPT !.velocityY = p.velocityY + gravity,
              !.y = p.y + p.velocityY + gravity]

\* rotation update, wrapped at 360
Rotate(p) ==
    LET r == p.rotation + (IF p.isJumping THEN p.rotationSpeed ELSE rollRotation)
    IN [p EXCEPT !.rotation = IF r >= 360 THEN r - 360 ELSE r]

\* ground collision that puts the player on the ground but keeps its motion
GroundCollision_KeepsMotion(p) ==
    IF p.y + Px(playerHeight) >= p.groundY
    THEN [p EXCEPT !.y = p.groundY, !.rotationSpeed = 0]
    ELSE p

\* ground collision
GroundCollision(p) ==
    IF p.y + Px(playerHeight) >= p.groundY
    THEN [p EXCEPT !.y = p.groundY, !.velocityY = 0,
                   !.isJumping = FALSE, !.rotationSpeed = 0]
    ELSE p

\* one iteration of the platform loop that lands the player but keeps its fall
LandOn_KeepsFalling(p, platform, cam) ==
    LET platformScreenX == platform.x - cam IN
    IF /\ platformScreenX < playerX + playerWidth
       /\ platformScreenX + platform.width > playerX
       /\ p.y + Px(playerHeight) > platform.y
       /\ p.y < platform.y + platform.height
       /\ p.velocityY > 0
       /\ p.y + Px(playerHeight) <= platform.y + Px(10)
    THEN [p EXCEPT !.y = platform.y - Px(playerHeight),
                   !.isJumping = FALSE, !.rotationSpeed = 0]
    ELSE p

\* one iteration of the platform loop
LandOn(p, platform, cam) ==
    LET platformScreenX == platform.x - cam IN
    IF /\ platformScreenX < playerX + playerWidth
       /\ platformScreenX + platform.width > playerX
       /\ p.y + Px(playerHeight) > platform.y
       /\ p.y < platform.y + platform.height
       /\ p.velocityY > 0
       /\ p.y + Px(playerHeight) <= platform.y + Px(10)
    THEN [p EXCEPT !.y = platform.y - Px(playerHeight), !.velocityY = 0,
                   !.isJumping = FALSE, !.rotationSpeed = 0]
    ELSE p

\* platform collision: the loop over level.platforms, in list order
RECURSIVE PlatformCollision(_, _, _)
PlatformCollision(p, platforms, cam) ==
    IF platforms = <<>> THEN p
    ELSE PlatformCollision(LandOn(p, Head(platforms), cam), Tail(platforms), cam)

\* ceiling collision
CeilingCollision(p) ==
    IF p.y < 0 THEN [p EXCEPT !.y = 0, !.velocityY = 0] ELSE p

\* the overlap test on world x, without the camera projection
HitsAny_NoCamera(p, list, cam) ==
    \E i \in 1..Len(list) :
        CheckCollision(playerX, p.y, playerWidth, Px(playerHeight),
                       list[i].x, list[i].y, list[i].width, list[i].height)

\* the player rectangle overlaps some rectangle of the list (obstacles or spikes)
HitsAny(p, list, cam) ==
    \E i \in 1..Len(list) :
        CheckCollision(playerX, p.y, playerWidth, Px(playerHeight),
                       list[i].x - cam, list[i].y, list[i].width, list[i].height)

\* the ageing loop that removes a particle one tick after its life has run out
AgeParticles_LateRemoval(ps) ==
    LET aged == [i \in 1..Len(ps) |-> [ps[i] EXCEPT !.life = ps[i].life - 1]]
    IN SelectSeq(aged, LAMBDA q : q.life >= 0)

\* the ageing loop of updateParticles(): life-- and removal at life <= 0
AgeParticles(ps) ==
    LET aged == [i \in 1..Len(ps) |-> [ps[i] EXCEPT !.life = ps[i].life - 1]]
    IN SelectSeq(aged, LAMBDA q : q.life > 0)

\* `if (length > 50) splice(0, length - 50)`
LimitParticles(ps) ==
    IF Len(ps) > maxParticles
    THEN SubSeq(ps, Len(ps) - maxParticles + 1, Len(ps))
    ELSE ps

\* updateParticles()
UpdateParticles(g) ==
    LET pushed == IF g.gameState = "playing"
                  THEN Append(g.particles, TrailParticle)
                  ELSE g.particles
    IN [g EXCEPT !.particles = LimitParticles(AgeParticles(pushed))]

\* px per frame of a layer of the given speed (in tenths), in half pixels
ParallaxShift(speed) == (scrollSpeed * speed * 2) \div 10

\* one element of updateParallax(); r is the px value of `Math.random() * 500`
MoveElement(e, cam, r) ==
    LET x == e.x - ParallaxShift(e.speed) IN
    [e EXCEPT !.x = IF x + e.size < -Hp(cam) THEN Hp(level.width) + Hp(r) ELSE x]

\* updateParallax(); r[i] is the random draw of element i
UpdateParallax(g, r) ==
    [g EXCEPT !.parallax = [i \in 1..Len(g.parallax) |->
                               MoveElement(g.parallax[i], g.cameraX, r[i])]]

\* update() that derives the score before it advances the camera
Physics_StaleScore(g) ==
    LET cam == AdvanceCamera(g.cameraX)
        p == CeilingCollision(
               PlatformCollision(
                 GroundCollision(Rotate(Integrate(g.player))),
                 level.platforms, cam))
    IN [g EXCEPT !.cameraX = cam,
                 !.distance = g.cameraX \div 10,
                 !.score = g.cameraX \div 10,
                 !.player = p]

\* update(): camera, score, physics and collision resolution
Physics(g) ==
    LET cam == AdvanceCamera(g.cameraX)
        p == CeilingCollision(
               PlatformCollision(
                 GroundCollision(Rotate(Integrate(g.player))),
                 level.platforms, cam))
    IN [g EXCEPT !.cameraX = cam,
                 !.distance = cam \div 10,
                 !.score = cam \div 10,
                 !.player = p]

\* the end-of-frame checks without the win test
Outcome_NoWin(g, r) ==
    IF HitsAny(g.player, level.obstacles, g.cameraX) THEN Die(g)
    ELSE IF HitsAny(g.player, level.spikes, g.cameraX) THEN Die(g)
    ELSE IF g.player.y > Px(LogicalHeight(g)) THEN Die(g)
    ELSE UpdateParallax(UpdateParticles(g), r)

\* the end-of-frame checks with the win test as `cameraX > level.width`
Outcome_StrictWin(g, r) ==
    IF HitsAny(g.player, level.obstacles, g.cameraX) THEN Die(g)
    ELSE IF HitsAny(g.player, level.spikes, g.cameraX) THEN Die(g)
    ELSE IF g.player.y > Px(LogicalHeight(g)) THEN Die(g)
    ELSE IF g.cameraX > level.width THEN Win(g)
    ELSE UpdateParallax(UpdateParticles(g), r)

\* update(): the checks that end the frame, in source order
Outcome(g, r) ==
    IF HitsAny(g.player, level.obstacles, g.cameraX) THEN Die(g)
    ELSE IF HitsAny(g.player, level.spikes, g.cameraX) THEN Die(g)
    ELSE IF g.player.y > Px(LogicalHeight(g)) THEN Die(g)
    ELSE IF g.cameraX >= level.width THEN Win(g)
    ELSE UpdateParallax(UpdateParticles(g), r)

\* update() without its `not playing` guard
Update_NoGuard(g, r) == Outcome(Physics(g), r)

\* update(); r holds the random draws of this frame
Update(g, r) ==
    IF g.gameState # "playing" THEN g ELSE Outcome(Physics(g), r)

\* resizeCanvas(), for a laid-out canvas of logical height h
ResizeCanvas(g, h) ==
    LET gy == GroundYFor(h)
        p == [g.player EXCEPT !.groundY = gy] IN
    [g EXCEPT !.canvasHeight = h,
              !.player = IF g.gameState \in {"start", "dead"}
                         THEN [p EXCEPT !.y = gy] ELSE p]

----------------------------------------------------------------------------
(* The page around the instance: gameLoop(), initGame(), the global commands *)

\* the page as the script finds it: no instance, no frame loop, nothing reported.
\*   instances / loops: instances constructed (gameInstance is set when > 0) and
\*                      frame loops running (chains of requestAnimationFrame)
\*   missed:    whole frame periods since this.lastTime in which no callback ran
\*   late:      frame periods by which the last callback's deltaTime exceeded one
\*   lastFrame: the calls the last gameLoop() made
\*   backdrop:  the canvas background of script.js (none on this page)
NoPage(canvas) ==
    [canvas |-> canvas, setup |-> FALSE, instances |-> 0, loops |-> 0,
     hidden |-> FALSE, missed |-> 0, late |-> 0, lastFrame |-> <<>>,
     startTimers |-> 0, restartTimers |-> 0, diagnostics |-> {},
     backdrop |-> [animationId |-> 0, pending |-> 0, x |-> 0, vx |-> 0]]

\* the instance fields before any instance exists, in a given environment
NoGame(st, throws) ==
    [gameState |-> "none", cameraX |-> 0, score |-> 0, distance |-> 0,
     player |-> [y |-> 0, velocityY |-> 0, rotation |-> 0, rotationSpeed |-> 0,
                 isJumping |-> FALSE, groundY |-> 0],
     jumpHeld |-> FALSE, jumpHeldTime |-> 0, particles |-> <<>>,
     highScore |-> Number(0), store |-> st, storageThrows |-> throws,
     canvasHeight |-> defaultHeight, jumps |-> 0, parallax |-> <<>>,
     indicator |-> FALSE, audio |-> NoAudio("none")]

\* gameLoop() that steps the simulation once per elapsed frame period
GameLoop_CatchUp(g, pg, r) ==
    LET stepped == IF pg.missed > 0 THEN Update(Update(g, r), r) ELSE Update(g, r) IN
    IF ~pg.hidden
    THEN [game |-> stepped,
          page |-> [pg EXCEPT !.missed = 0, !.late = pg.missed,
                              !.lastFrame = <<"update", "render">>]]
    ELSE [game |-> g,
          page |-> [pg EXCEPT !.missed = 0, !.late = pg.missed, !.lastFrame = <<>>]]

\* gameLoop(): deltaTime is computed and lastTime moved on; update() and
\* render() run unless document.hidden; the next callback is requested
GameLoop(g, pg, r) ==
    IF ~pg.hidden
    THEN [game |-> Update(g, r),
          page |-> [pg EXCEPT !.missed = 0, !.late = pg.missed,
                              !.lastFrame = <<"update", "render">>]]
    ELSE [game |-> g,
          page |-> [pg EXCEPT !.missed = 0, !.late = pg.missed, !.lastFrame = <<>>]]

\* new GeometryDashGame(canvas): the fields, the level for the default height,
\* the stored high score, and the first gameLoop() call, which starts the loop
Construct(g, pg) ==
    GameLoop([InitAudio(g) EXCEPT !.gameState = "start",
                       !.player = [y |-> GroundYFor(LogicalHeight(g)), velocityY |-> 0,
                                   rotation |-> 0, rotationSpeed |-> 0,
                                   isJumping |-> FALSE,
                                   groundY |-> GroundYFor(LogicalHeight(g))],
                       !.highScore = LoadHighScore(g)],
             [pg EXCEPT !.instances = pg.instances + 1, !.loops = pg.loops + 1,
                        !.missed = 0],
             <<>>)

\* initGame() that reports nothing when the canvas is missing
InitGame_Silent(g, pg) ==
    IF pg.instances > 0 \/ ~pg.canvas THEN [game |-> g, page |-> pg]
    ELSE Construct(g, pg)

\* initGame() without its `already initialized` guard
InitGame_NoGuard(g, pg) ==
    IF ~pg.canvas
    THEN [game |-> g,
          page |-> [pg EXCEPT !.diagnostics = @ \cup {"Canvas element not found"}]]
    ELSE Construct(g, pg)

\* initGame()
InitGame(g, pg) ==
    IF pg.instances > 0 THEN [game |-> g, page |-> pg]
    ELSE IF ~pg.canvas
    THEN [game |-> g,
          page |-> [pg EXCEPT !.diagnostics = @ \cup {"Canvas element not found"}]]
    ELSE Construct(g, pg)

\* setupGame(): initGame(), then the button and canvas-click handlers
SetupGame(g, pg) ==
    LET o == InitGame(g, pg) IN [o EXCEPT !.page.setup = TRUE]

\* the global startGame(): the instance's startGame(), or initGame() and a retry timer
GlobalStartGame(g, pg) ==
    IF pg.instances > 0 THEN [game |-> StartGame(g), page |-> pg]
    ELSE LET o == InitGame(g, pg) IN
         [o EXCEPT !.page.startTimers = o.page.startTimers + 1]

\* the retry timer of the global startGame()
StartRetry(g, pg) ==
    LET q == [pg EXCEPT !.startTimers = pg.startTimers - 1] IN
    IF pg.instances > 0 THEN [game |-> StartGame(g), page |-> q]
    ELSE [game |-> g,
          page |-> [q EXCEPT !.diagnostics =
                       @ \cup {"Failed to start game. Please refresh the page."}]]

\* the global restartGame(): the instance's restart(), or a retry timer
RestartGame(g, pg) ==
    IF pg.instances > 0 THEN [game |-> Restart(g), page |-> pg]
    ELSE [game |-> g, page |-> [pg EXCEPT !.restartTimers = pg.restartTimers + 1]]

\* the retry timer of restartGame()
RestartRetry(g, pg) ==
    LET q == [pg EXCEPT !.restartTimers = pg.restartTimers - 1] IN
    IF pg.instances > 0 THEN [game |-> Restart(g), page |-> q]
    ELSE [game |-> g,
          page |-> [q EXCEPT !.diagnostics =
                       @ \cup {"Game instance not found. Please refresh the page."}]]

----------------------------------------------------------------------------
(* The canvas background of script.js: createCanvasBackground().
     animationId: 0 while the variable is undefined, 1 once it holds a request id
                  (the code only tests whether it is set)
     pending:     requestAnimationFrame(animate) callbacks not yet run
     x, vx:       position and velocity of one followed particle *)

\* updateParticles(), for the followed particle: move, then wrap at the edges
MoveParticle(b) ==
    LET x == b.x + b.vx IN
    [b EXCEPT !.x = IF x < 0 THEN MaxBackdropWidth
                    ELSE IF x > MaxBackdropWidth THEN 0
                    ELSE x]

\* animate(): nothing while document.hidden; otherwise update, draw and
\* request the next callback
Animate(pg) ==
    IF pg.hidden THEN pg
    ELSE [pg EXCEPT !.backdrop = [MoveParticle(pg.backdrop) EXCEPT
                                     !.animationId = 1,
                                     !.pending = pg.backdrop.pending + 1]]

\* initParticles(), for the followed particle
InitParticles(pg, x, vx) == [pg EXCEPT !.backdrop.x = x, !.backdrop.vx = vx]

\* startAnimation(): resizeCanvas(), initParticles(), animate()
StartAnimation(pg, x, vx) == Animate(InitParticles(pg, x, vx))

\* a requestAnimationFrame callback runs: animate()
AnimateCallback(pg) ==
    Animate([pg EXCEPT !.backdrop.pending = pg.backdrop.pending - 1])

\* the visibilitychange listener, after document.hidden has changed
BackdropVisibility(pg) ==
    LET q == [pg EXCEPT !.hidden = ~pg.hidden] IN
    IF ~q.hidden /\ q.backdrop.animationId = 0 THEN Animate(q) ELSE q

----------------------------------------------------------------------------
(* Initial states *)

\* heights a resize can bring
CanvasHeights == {defaultHeight, 560}
\* contents of the high-score slot found at construction
InitialStores == {NoItem, Item(<<"3", "0">>), Item(<<"a", "b", "c">>)}
\* px values of `Math.random() * 500`
RandomSamples == {0, 499}
\* the tracked elements, one per layer (speeds 0.2, 0.5, 1.0 in tenths), where
\* initParallax() may have put them
TrackedElements ==
    <<[x |-> Hp(300), size |-> Hp(20), speed |-> 2],
      [x |-> Hp(300), size |-> Hp(20), speed |-> 5],
      [x |-> Hp(300), size |-> Hp(20), speed |-> 10]>>

\* the variables hold the instance g
Is(g) ==
    /\ gameState = g.gameState
    /\ cameraX = g.cameraX
    /\ score = g.score
    /\ distance = g.distance
    /\ player = g.player
    /\ jumpHeld = g.jumpHeld
    /\ jumpHeldTime = g.jumpHeldTime
    /\ particles = g.particles
    /\ highScore = g.highScore
    /\ store = g.store
    /\ storageThrows = g.storageThrows
    /\ canvasHeight = g.canvasHeight
    /\ jumps = g.jumps
    /\ parallax = g.parallax
    /\ indicator = g.indicator
    /\ audio = g.audio

\* no second page is open and checkCollision() has not been called directly
NoTwin == NoGame(NoItem, TRUE)
NoProbe == [args |-> <<>>, called |-> FALSE, hit |-> FALSE]
Alone == twin = NoTwin /\ probe = NoProbe

\* the state setupGame() leaves on a page that has the canvas: the script has
\* run, the constructor has built the instance and started the frame loop
Init ==
    \E throws \in BOOLEAN :
      \E st \in (IF throws THEN {NoItem} ELSE InitialStores) :
        \E o \in {SetupGame(NoGame(st, throws), NoPage(TRUE))} :
            Is(o.game) /\ page = o.page /\ Alone

----------------------------------------------------------------------------
(* Actions: the events the page delivers to the instance *)

\* the call takes the jump branch / the hold branch of handleJumpStart()
TakesJumpBranch == gameState = "playing" /\ ~player.isJumping /\ IsOnGround(This)
TakesHoldBranch == gameState = "playing" /\ player.isJumping /\ jumpHeld

\* a startGame() call now would start a beat loop: it is explored while the
\* pending playBeat timers are under the model bound
MusicMayStart ==
    (audio.ready /\ gameState # "playing") => audio.beats < MaxBeats

\* both branches are explored while their counters are under the model bounds,
\* and so are the resume() calls of a suspended audio context
WithinBounds ==
    /\ TakesHoldBranch => jumpHeldTime < MaxJumpHeldTime
    /\ TakesJumpBranch => jumps < MaxJumps
    /\ (audio.context /\ ~audio.ready) => audio.resuming < MaxResumes
    /\ MusicMayStart

\* the model's count of jump impulses
Counted(g) ==
    IF TakesJumpBranch THEN [g EXCEPT !.jumps = jumps + 1] ELSE g

\* the listeners of setupEventListeners() exist once an instance does
HasInstance == page.instances > 0

\* keydown (Space) and touchstart
JumpStartEvent ==
    /\ HasInstance
    /\ WithinBounds
    /\ \E g \in {Counted(HandleJumpStart(This))} : Becomes(g)
    /\ UNCHANGED <<page, aside>>

\* mousedown on the canvas
MouseDownEvent ==
    /\ HasInstance
    /\ WithinBounds
    /\ \E g \in {Counted(MouseDown(This))} : Becomes(g)
    /\ UNCHANGED <<page, aside>>

\* keyup, mouseup and touchend
JumpEndEvent ==
    /\ HasInstance
    /\ \E g \in {HandleJumpEnd(This)} : Becomes(g)
    /\ UNCHANGED <<page, aside>>

\* the start button and a canvas click: the global startGame()
StartCommand ==
    /\ ~HasInstance => page.startTimers < MaxTimers
    /\ MusicMayStart
    /\ \E o \in {GlobalStartGame(This, page)} : Becomes(o.game) /\ page' = o.page /\ UNCHANGED aside

\* the restart button: the global restartGame()
RestartCommand ==
    /\ ~HasInstance => page.restartTimers < MaxTimers
    /\ MusicMayStart
    /\ \E o \in {RestartGame(This, page)} : Becomes(o.game) /\ page' = o.page /\ UNCHANGED aside

\* the random draws of one frame: one per tracked element when some element
\* is about to wrap
Draws(g) ==
    IF /\ g.gameState = "playing"
       /\ \E i \in 1..Len(g.parallax) :
              MoveElement(g.parallax[i], g.cameraX + scrollSpeed, 0).x > g.parallax[i].x
    THEN [1..Len(g.parallax) -> RandomSamples]
    ELSE {[i \in 1..Len(g.parallax) |-> 0]}

\* one animation frame callback: gameLoop()
Frame ==
    /\ page.loops > 0
    /\ \E r \in Draws(This) :
         \E o \in {GameLoop(This, page, r)} : Becomes(o.game) /\ page' = o.page /\ UNCHANGED aside

\* die() invoked again once the run is over
DieAgain ==
    /\ gameState = "dead"
    /\ \E g \in {Die(This)} : Becomes(g)
    /\ UNCHANGED <<page, aside>>

\* window resize; resizes are explored between runs, not during one
ResizeEvent ==
    /\ HasInstance
    /\ gameState # "playing"
    /\ \E h \in CanvasHeights : \E g \in {ResizeCanvas(This, h)} : Becomes(g)
    /\ UNCHANGED <<page, aside>>

Next ==
    \/ JumpStartEvent
    \/ MouseDownEvent
    \/ JumpEndEvent
    \/ StartCommand
    \/ RestartCommand
    \/ Frame
    \/ DieAgain

\* sessions in which the canvas keeps the height it had at construction
Spec == Init /\ [][Next]_vars

NextResize == Next \/ ResizeEvent

\* sessions with window resizes
SpecResize == Init /\ [][NextResize]_vars

----------------------------------------------------------------------------
(* Sessions in which one element of each parallax layer is followed *)

InitParallax ==
    \E o \in {SetupGame([NoGame(NoItem, FALSE) EXCEPT !.parallax = TrackedElements],
                        NoPage(TRUE))} :
        Is(o.game) /\ page = o.page /\ Alone

\* px the tracked background element has moved left since construction
ParallaxDrift == (TrackedElements[1].x - parallax[1].x) \div Hp(1)

\* runs are started while the drift is within the model bound
RunMayStart(states) == gameState \in states => ParallaxDrift <= MaxParallaxDrift

NextParallax ==
    \/ RunMayStart({"start", "dead"}) /\ JumpStartEvent
    \/ RunMayStart({"start", "dead"}) /\ MouseDownEvent
    \/ JumpEndEvent
    \/ RunMayStart({"start", "dead", "win"}) /\ StartCommand
    \/ RunMayStart({"start", "dead", "win"}) /\ RestartCommand
    \/ Frame
    \/ DieAgain
    \/ ResizeEvent

SpecParallax == InitParallax /\ [][NextParallax]_vars

----------------------------------------------------------------------------
(* The score store exercised on its own: the two methods called directly *)

\* instance.saveHighScore(n)
SaveHighScoreCall(n) ==
    /\ HasInstance
    /\ \E g \in {SaveHighScore(This, n)} : Becomes(g)
    /\ UNCHANGED <<page, aside>>

SaveCall == \E n \in 0..MaxSaved : SaveHighScoreCall(n)

\* instance.highScore = instance.loadHighScore(), as the constructor does
LoadHighScoreCall ==
    /\ HasInstance
    /\ \E g \in {[This EXCEPT !.highScore = LoadHighScore(This)]} : Becomes(g)
    /\ UNCHANGED <<page, aside>>

\* the user clears the site data: the slot is absent again
ClearStorage ==
    /\ ~storageThrows
    /\ store' = NoItem
    /\ UNCHANGED <<gameState, cameraX, score, distance, player, jumpHeld,
                   jumpHeldTime, particles, highScore, storageThrows,
                   canvasHeight, jumps, parallax, indicator, audio, page, aside>>

----------------------------------------------------------------------------
(* Sessions in which the page is hidden and shown again *)

\* the variables of the instance and its environment, all but the page
instanceVars == <<gameState, cameraX, score, distance, player, jumpHeld,
                  jumpHeldTime, particles, highScore, store, storageThrows,
                  canvasHeight, jumps, parallax, indicator, audio>>

InitVisibility ==
    \E o \in {SetupGame(NoGame(NoItem, FALSE), NoPage(TRUE))} :
        Is(o.game) /\ page = o.page /\ Alone

\* visibilitychange: the tab goes to the background or comes back
VisibilityChange ==
    /\ page' = [page EXCEPT !.hidden = ~page.hidden]
    /\ UNCHANGED <<instanceVars, aside>>

\* a frame period passes in which the browser runs no frame callback
TimePasses ==
    /\ page.hidden
    /\ page.missed < MaxMissed
    /\ page' = [page EXCEPT !.missed = page.missed + 1]
    /\ UNCHANGED <<instanceVars, aside>>

NextVisibility == Next \/ VisibilityChange \/ TimePasses

SpecVisibility == InitVisibility /\ [][NextVisibility]_vars

NextStore == SaveCall \/ LoadHighScoreCall \/ ClearStorage

SpecStore == Init /\ [][NextStore]_vars

----------------------------------------------------------------------------
(* Sessions from the loading of the script: setupGame(), further initGame()
   calls by the host, and the retry timers of the global commands *)

InitSetup ==
    \E canvas \in BOOLEAN :
        Is(NoGame(NoItem, FALSE)) /\ page = NoPage(canvas) /\ Alone

\* DOMContentLoaded (or the script's last line): setupGame(), once
SetupGameCall ==
    /\ ~page.setup
    /\ \E o \in {SetupGame(This, page)} : Becomes(o.game) /\ page' = o.page /\ UNCHANGED aside

\* the host calls initGame()
InitGameCall ==
    \E o \in {InitGame(This, page)} : Becomes(o.game) /\ page' = o.page /\ UNCHANGED aside

\* the 100 ms timer of the global startGame() fires
StartRetryTimer ==
    /\ page.startTimers > 0
    /\ \E o \in {StartRetry(This, page)} : Becomes(o.game) /\ page' = o.page /\ UNCHANGED aside

\* the 200 ms timer of restartGame() fires
RestartRetryTimer ==
    /\ page.restartTimers > 0
    /\ \E o \in {RestartRetry(This, page)} : Becomes(o.game) /\ page' = o.page /\ UNCHANGED aside

NextSetup ==
    \/ Next
    \/ SetupGameCall
    \/ InitGameCall
    \/ StartRetryTimer
    \/ RestartRetryTimer

SpecSetup == InitSetup /\ [][NextSetup]_vars

----------------------------------------------------------------------------
(* Two pages given the same events and frames: this one with an audio context
   and, unless storage is disabled, a store; the twin with neither *)

AudioStates == {"suspended", "running"}

InitTwin ==
    \E throws \in BOOLEAN :
      \E st \in (IF throws THEN {NoItem} ELSE InitialStores) :
        \E a \in AudioStates :
          \E o \in {SetupGame([NoGame(st, throws) EXCEPT !.audio = NoAudio(a)],
                              NoPage(TRUE))} :
            /\ Is(o.game)
            /\ page = o.page
            /\ twin = SetupGame(NoGame(NoItem, TRUE), NoPage(TRUE)).game
            /\ probe = NoProbe

\* this instance becomes g and the twin t
Pair(g, t) == Becomes(g) /\ twin' = t /\ UNCHANGED probe

TwinJumpStart ==
    /\ HasInstance
    /\ WithinBounds
    /\ Pair(Counted(HandleJumpStart(This)), HandleJumpStart(twin))
    /\ UNCHANGED page

TwinMouseDown ==
    /\ HasInstance
    /\ WithinBounds
    /\ Pair(Counted(MouseDown(This)), MouseDown(twin))
    /\ UNCHANGED page

TwinJumpEnd ==
    /\ HasInstance
    /\ Pair(HandleJumpEnd(This), HandleJumpEnd(twin))
    /\ UNCHANGED page

TwinStartCommand ==
    /\ HasInstance
    /\ MusicMayStart
    /\ Pair(GlobalStartGame(This, page).game, GlobalStartGame(twin, page).game)
    /\ UNCHANGED page

TwinRestartCommand ==
    /\ HasInstance
    /\ MusicMayStart
    /\ Pair(RestartGame(This, page).game, RestartGame(twin, page).game)
    /\ UNCHANGED page

TwinFrame ==
    /\ page.loops > 0
    /\ \E r \in Draws(This) :
         /\ Pair(GameLoop(This, page, r).game, GameLoop(twin, page, r).game)
         /\ page' = GameLoop(This, page, r).page

\* a resume() promise of this page's audio context is fulfilled
AudioResumes ==
    /\ audio.resuming > 0
    /\ gameState = "playing" => audio.beats < MaxBeats
    /\ \E g \in {ResumeResolved(This)} : Becomes(g)
    /\ UNCHANGED <<page, aside>>

\* a resume() promise is rejected
AudioResumeFails ==
    /\ audio.resuming > 0
    /\ \E g \in {ResumeRejected(This)} : Becomes(g)
    /\ UNCHANGED <<page, aside>>

\* a playBeat timer of this page fires
BeatTimer ==
    /\ audio.beats > 0
    /\ \E g \in {PlayBeat(This)} : Becomes(g)
    /\ UNCHANGED <<page, aside>>

NextTwin ==
    \/ TwinJumpStart
    \/ TwinMouseDown
    \/ TwinJumpEnd
    \/ TwinStartCommand
    \/ TwinRestartCommand
    \/ TwinFrame
    \/ AudioResumes
    \/ AudioResumeFails
    \/ BeatTimer

SpecTwin == InitTwin /\ [][NextTwin]_vars

----------------------------------------------------------------------------
(* Sessions in which the window is resized during a run: the first frames of
   a run, in which the player can be above its rest position and fall *)

\* window resize while playing: groundY moves, player.y stays
ResizeDuringRun ==
    /\ HasInstance
    /\ gameState = "playing"
    /\ \E h \in CanvasHeights : \E g \in {ResizeCanvas(This, h)} : Becomes(g)
    /\ UNCHANGED <<page, aside>>

\* the hold branch is explored up to the flight bound
FewHolds == TakesHoldBranch => jumpHeldTime < MaxFlightHolds

\* frames are explored up to the flight bound
EarlyInRun == cameraX < scrollSpeed * MaxFlightFrames

NextFlight ==
    \/ FewHolds /\ JumpStartEvent
    \/ FewHolds /\ MouseDownEvent
    \/ JumpEndEvent
    \/ StartCommand
    \/ RestartCommand
    \/ EarlyInRun /\ Frame
    \/ ResizeEvent
    \/ ResizeDuringRun

SpecFlight == InitVisibility /\ [][NextFlight]_vars

----------------------------------------------------------------------------
(* A page with a hero section and no game canvas: the canvas background alone *)

\* positions and velocities initParticles() may draw
ParticleStarts == {0, 5, MaxBackdropWidth}
ParticleSpeeds == {-2, -1, 1, 2}

InitBackdrop ==
    /\ Is(NoGame(NoItem, FALSE))
    /\ Alone
    /\ \E hidden \in BOOLEAN : \E x \in ParticleStarts : \E vx \in ParticleSpeeds :
           page = StartAnimation([NoPage(FALSE) EXCEPT !.hidden = hidden], x, vx)

\* the browser runs a pending animation-frame callback
BackdropFrame ==
    /\ page.backdrop.pending > 0
    /\ page' = AnimateCallback(page)
    /\ UNCHANGED <<instanceVars, aside>>

\* visibilitychange on this page
BackdropVisibilityChange ==
    /\ page' = BackdropVisibility(page)
    /\ UNCHANGED <<instanceVars, aside>>

\* the ResizeObserver callback: resizeCanvas() and initParticles()
BackdropResized ==
    /\ \E x \in ParticleStarts : \E vx \in ParticleSpeeds :
           page' = InitParticles(page, x, vx)
    /\ UNCHANGED <<instanceVars, aside>>

NextBackdrop ==
    \/ BackdropFrame
    \/ BackdropVisibilityChange
    \/ BackdropResized

SpecBackdrop == InitBackdrop /\ [][NextBackdrop]_vars

----------------------------------------------------------------------------
(* checkCollision() called directly on rectangles of positive width and height *)

Rectangles == (0..MaxCoord) \X (0..MaxCoord) \X (1..MaxSide) \X (1..MaxSide)

InitCollision ==
    /\ \E o \in {SetupGame(NoGame(NoItem, FALSE), NoPage(TRUE))} :
           Is(o.game) /\ page = o.page
    /\ twin = NoTwin
    /\ \E a \in Rectangles : \E b \in Rectangles :
           probe = [args |-> a \o b, called |-> FALSE, hit |-> FALSE]

\* instance.checkCollision(x1, y1, w1, h1, x2, y2, w2, h2)
CheckCollisionCall ==
    /\ ~probe.called
    /\ LET a == probe.args IN
       probe' = [probe EXCEPT !.called = TRUE,
                              !.hit = CheckCollision(a[1], a[2], a[3], a[4],
                                                     a[5], a[6], a[7], a[8])]
    /\ UNCHANGED <<instanceVars, page, twin>>

NextCollision == CheckCollisionCall

SpecCollision == InitCollision /\ [][NextCollision]_vars

----------------------------------------------------------------------------
(* The platform loop of update() run on its own, on lists of platforms the
   level of createLevel() does not have *)

\* platforms around the player's column: under it (x 90), or touching its
\* right side at camera 0 and under it one camera step later; tops 5 px apart
PlatformChoices ==
    {[x |-> x, y |-> Px(y), width |-> 50, height |-> Px(20)] :
        x \in {90, playerX + playerWidth}, y \in {400, 405}}

RECURSIVE ListsUpTo(_)
ListsUpTo(n) ==
    IF n = 0 THEN {<<>>}
    ELSE LET shorter == ListsUpTo(n - 1) IN
         shorter \cup {Append(l, pf) : l \in shorter, pf \in PlatformChoices}

\* players after the integration step: bottom edge between 2 px above the
\* higher top and 13 px below it, rising, still or falling
FallingPlayers ==
    {[y |-> Px(bottom - playerHeight), velocityY |-> v, rotation |-> 0,
      rotationSpeed |-> jumpRotationSpeed, isJumping |-> TRUE,
      groundY |-> GroundYFor(defaultHeight)] :
        bottom \in {398, 403, 408, 413}, v \in {-gravity, 0, 5 * gravity}}

InitPlatforms ==
    /\ \E o \in {SetupGame(NoGame(NoItem, FALSE), NoPage(TRUE))} :
           Is(o.game) /\ page = o.page
    /\ twin = NoTwin
    /\ \E p \in FallingPlayers : \E l \in ListsUpTo(MaxPlatforms) :
         \E cam \in {0, scrollSpeed} :
           probe = [args |-> <<p, l, cam>>, called |-> FALSE, landed |-> p]

\* the platform loop of update() for the given player, list and camera
PlatformLoopCall ==
    /\ ~probe.called
    /\ probe' = [probe EXCEPT !.called = TRUE,
                              !.landed = PlatformCollision(probe.args[1],
                                                           probe.args[2],
                                                           probe.args[3])]
    /\ UNCHANGED <<instanceVars, page, twin>>

NextPlatforms == PlatformLoopCall

SpecPlatforms == InitPlatforms /\ [][NextPlatforms]_vars

----------------------------------------------------------------------------
(* Notions the properties are stated in *)

\* a handleJumpStart() call: keydown, touchstart, or mousedown
JumpIntent == JumpStartEvent \/ MouseDownEvent

\* strict overlap of the player rectangle at height y (camera at cam) with rectangle o
Overlaps(y, cam, o) ==
    /\ playerX < (o.x - cam) + o.width
    /\ (o.x - cam) < playerX + playerWidth
    /\ y < o.y + o.height
    /\ o.y < y + Px(playerHeight)

OverlapsSome(y, cam, list) == \E i \in 1..Len(list) : Overlaps(y, cam, list[i])

PlayerOverlaps ==
    \/ OverlapsSome(player.y, cameraX, level.obstacles)
    \/ OverlapsSome(player.y, cameraX, level.spikes)

Max(a, b) == IF a >= b THEN a ELSE b

Min(a, b) == IF a <= b THEN a ELSE b

\* length of the intersection of the intervals [a, a + m] and [b, b + n]
\* (negative when they are apart)
Shared(a, m, b, n) == Min(a + m, b + n) - Max(a, b)

\* the tick that starts now takes the ground-collision branch of update():
\* the integrated position satisfies its test
ResolvesGround ==
    player.y + player.velocityY + gravity + Px(playerHeight) >= player.groundY

\* the ground line: play-field height minus ground thickness
GroundLine == Px(LogicalHeight(This) - groundHeight)

\* the descending player p qualifies to land on the platform: horizontal
\* overlap on screen, and its bottom edge below the top by at most 10 px
Qualifies(p, platform, cam) ==
    /\ platform.x - cam < playerX + playerWidth
    /\ platform.x - cam + platform.width > playerX
    /\ p.velocityY > 0
    /\ p.y + Px(playerHeight) > platform.y
    /\ p.y + Px(playerHeight) <= platform.y + Px(10)
    /\ p.y < platform.y + platform.height

\* indices of the platforms of the list on which p qualifies to land
Qualifying(p, list, cam) == {i \in 1..Len(list) : Qualifies(p, list[i], cam)}

\* the least element of a non-empty set of numbers
Least(S) == CHOOSE i \in S : \A j \in S : i <= j

\* ten times the on-screen right edge of a parallax element, in half pixels:
\* element.x + size - cameraX * layer.speed, as drawParallax() projects it
ScreenRightEdge(e, cam) == 10 * (e.x + e.size) - Hp(cam) * e.speed

\* ticks the run can still take: ceil((level.width - cameraX) / scrollSpeed)
TicksLeft == (level.width - cameraX + scrollSpeed - 1) \div scrollSpeed

\* what a session shows of an instance: state, camera, score, player kinematics
Trajectory(g) == <<g.gameState, g.cameraX, g.score, g.player>>

----------------------------------------------------------------------------
(* C1 *)

\* C1: a frame in Playing that leaves the player rectangle strictly overlapping
\* an obstacle or spike ends in Dead; the step into Dead adds exactly the
\* 20-particle burst and commits the high score (highScore becomes the score
\* when the score is greater, else stays); once Dead, frames and further die()
\* calls change nothing.
C1_DeathExactlyOnce ==
    [][/\ (gameState = "playing" /\ PlayerOverlaps' /\ Frame) => gameState' = "dead"
       /\ (gameState = "playing" /\ gameState' = "dead") =>
              /\ Len(particles') = Len(particles) + 20
              /\ \A i \in 1..Len(particles) : particles'[i] = particles[i]
              /\ highScore' = IF ~highScore.isNaN /\ score' > highScore.value
                              THEN Number(score') ELSE highScore
       /\ (gameState = "dead" /\ (Frame \/ DieAgain)) => UNCHANGED vars]_vars

\* a run has ended on an obstacle and the burst is in the particle list
C1_Witness ==
    /\ gameState = "dead"
    /\ PlayerOverlaps
    /\ Len(particles) >= 20
    /\ particles[Len(particles)].maxLife = 30

----------------------------------------------------------------------------
(* C2 *)

\* C2: with the canvas at its construction height, Win is reachable: some
\* choice of jump intents carries the player over every obstacle to the end
\* of the level.  "Some run" is not a property of one behaviour; the run TLC
\* reports is judged against its consequence for a finished run, that it
\* finished in Win, and C2_NeverWinsWithoutResize shows that no other choice
\* of intents does better.
C2_RunEndsInWin == gameState \in {"dead", "win"} => gameState = "win"

\* what the code does instead: without a resize no run ever reaches Win,
\* whatever jump intents are issued
C2_NeverWinsWithoutResize == gameState # "win"

\* and the reason: the ground test of update() compares the bottom edge with
\* the rest position of the top edge, so a frame never leaves the player
\* above its rest position
C2_NeverLeavesGround == player.y = player.groundY

----------------------------------------------------------------------------
(* C3 *)

\* C3: every frame in Playing advances cameraX by exactly scrollSpeed, and no
\* step that starts and ends in Playing (a start or restart command included)
\* decreases cameraX.
C3_CameraAdvances ==
    [][/\ (gameState = "playing" /\ Frame) => cameraX' = cameraX + 5
       /\ (gameState = "playing" /\ gameState' = "playing") => cameraX' >= cameraX
       /\ (gameState = "playing" /\ (StartCommand \/ RestartCommand))
              => cameraX' = cameraX]_vars

\* a run under way, some frames in
C3_Witness == gameState = "playing" /\ cameraX = 50

----------------------------------------------------------------------------
(* C4 *)

\* C4: a jump intent in Playing with the player at rest on the ground and not
\* jumping sets velocityY to the jump power, -16 px per frame, and sets
\* isJumping.
C4_JumpImpulse ==
    [][(gameState = "playing" /\ ~player.isJumping
          /\ player.y = player.groundY /\ JumpIntent)
         => /\ player'.velocityY = -16 * 20
            /\ player'.velocityY < 0
            /\ player'.isJumping]_vars

\* the impulse has just been applied
C4_Witness ==
    /\ gameState = "playing"
    /\ player.isJumping
    /\ player.y = player.groundY
    /\ player.velocityY = -320
    /\ jumpHeldTime = 0

----------------------------------------------------------------------------
(* C5 *)

\* the best distance an accessible Score Store remembers: the stored decimal
\* integer, 0 when the slot is absent or does not hold one
StoredBest(st) ==
    IF st.has /\ st.text # <<>> /\ \A i \in 1..Len(st.text) : IsDigit(st.text[i])
    THEN ParseInt(st.text).value
    ELSE 0

\* C5: when a run ends (Playing to Dead or Win) with the store accessible, the
\* store afterwards remembers the maximum of what it remembered before and the
\* run's score, and is not written when the score is not greater.
C5_StoreHoldsMaximum ==
    [][(gameState = "playing" /\ gameState' \in {"dead", "win"} /\ ~storageThrows)
         => /\ StoredBest(store') = Max(StoredBest(store), score')
            /\ score' <= StoredBest(store) => store' = store]_vars

----------------------------------------------------------------------------
(* C6 *)

\* C6: a restart command or a jump intent in Dead yields Playing with
\* cameraX = 0, score = 0, the player at rest on the ground (y = groundY,
\* velocityY = 0, not jumping) and no particles.
C6_RestartResets ==
    [][(gameState = "dead" /\ (RestartCommand \/ JumpIntent))
         => /\ gameState' = "playing"
            /\ cameraX' = 0
            /\ score' = 0
            /\ player'.y = player'.groundY
            /\ player'.velocityY = 0
            /\ ~player'.isJumping
            /\ particles' = <<>>]_vars

\* a run restarted after a death (the committed score 37 shows the death)
C6_Witness ==
    /\ gameState = "playing"
    /\ cameraX = 0
    /\ particles = <<>>
    /\ ~highScore.isNaN
    /\ highScore.value = 37

----------------------------------------------------------------------------
(* C7 *)

----------------------------------------------------------------------------
(* C8 *)

\* C8: with the canvas at its construction height and no jump impulse issued,
\* a run cannot pass the first obstacle: while Playing cameraX stays below
\* 375, so the frames that keep coming end the run; it ends in Dead on an
\* obstacle of the first section, before cameraX reaches level.width, and
\* Win is not reached.
C8_NoInputDiesInFirstSection ==
    jumps = 0 =>
        /\ gameState # "win"
        /\ cameraX < level.width
        /\ gameState = "playing" => cameraX < 375
        /\ gameState = "dead" =>
              OverlapsSome(player.y, cameraX, SubSeq(level.obstacles, 1, 4))

\* the run has ended on the first obstacle without a jump
C8_Witness == gameState = "dead" /\ jumps = 0 /\ cameraX = 375 /\ score = 37

----------------------------------------------------------------------------
(* C9 *)

\* C9: once the hold counter of a jump has reached 18, a further jump intent
\* with the input held leaves velocityY unchanged; the hold contribution to
\* a jump is at most 18 boosts of 0.35.
C9_HoldCapped ==
    [][(gameState = "playing" /\ player.isJumping /\ jumpHeld /\ JumpIntent)
         => /\ jumpHeldTime >= 18 => player'.velocityY = player.velocityY
            /\ player'.velocityY - (-320) <= 18 * 7]_vars

\* a held jump intent arrived after the window had closed
C9_Witness ==
    /\ gameState = "playing"
    /\ player.isJumping
    /\ jumpHeld
    /\ jumpHeldTime >= 19
    /\ player.velocityY = -320 + 18 * 7

----------------------------------------------------------------------------
(* C10 *)

\* C10: a hold boost (jump intent while airborne, input held, counter under
\* the cap) makes velocityY more negative, i.e. more upward.
C10_HoldBoostUpward ==
    [][(gameState = "playing" /\ player.isJumping /\ jumpHeld
          /\ (jumpHeldTime + 1) * 16 < 300 /\ JumpIntent)
         => player'.velocityY < player.velocityY]_vars

----------------------------------------------------------------------------
(* C11 *)

\* a start or restart command: the global startGame() / restartGame()
Command == StartCommand \/ RestartCommand

\* the run is reset and under way
RunReset ==
    /\ gameState' = "playing"
    /\ cameraX' = 0
    /\ score' = 0
    /\ distance' = 0
    /\ player'.y = player.groundY
    /\ player'.velocityY = 0
    /\ ~player'.isJumping
    /\ player'.rotation = 0
    /\ particles' = <<>>

\* C11 as stated: a start or restart command resets the run and moves to
\* Playing when issued in Start or Dead; issued in Playing or in Win it leaves
\* gameState, cameraX, score, player and particles unchanged.
C11_StartOnlyFromStartOrDead ==
    [][/\ (gameState \in {"start", "dead"} /\ Command) => RunReset
       /\ (gameState \in {"playing", "win"} /\ Command)
              => UNCHANGED <<gameState, cameraX, score, player, particles>>]_vars

\* C11 amended: a start or restart command resets the run and moves to
\* Playing when issued in Start, Dead or Win; issued in Playing it changes
\* nothing.
C11_StartFromAnyStateButPlaying ==
    [][/\ (gameState \in {"start", "dead", "win"} /\ Command) => RunReset
       /\ (gameState = "playing" /\ Command) => UNCHANGED vars]_vars

\* a run started again after the level was completed (the committed score 425
\* is that of a completed level)
C11_Witness ==
    /\ gameState = "playing"
    /\ cameraX = 0
    /\ score = 0
    /\ ~highScore.isNaN
    /\ highScore.value = level.width \div 10

----------------------------------------------------------------------------
(* C12 *)

\* C12: in Win a jump intent, a jump release and a frame leave gameState,
\* cameraX, score, distance and every player field unchanged, and only a
\* start or restart command takes the game out of Win.
C12_WinInert ==
    [][/\ (gameState = "win" /\ (JumpIntent \/ JumpEndEvent \/ Frame))
              => UNCHANGED <<gameState, cameraX, score, distance, player>>
       /\ (gameState = "win" /\ gameState' # "win") => Command]_vars

\* the level has been completed and the jump input is down: the release that
\* follows and every later intent and frame find the game in Win
C12_Witness == gameState = "win" /\ score = level.width \div 10 /\ jumpHeld

----------------------------------------------------------------------------
(* C13 *)

\* C13: a jump intent in Start or in Dead yields Playing with the run reset as
\* a start or restart command resets it, and applies no impulse: afterwards
\* velocityY = 0, isJumping is false and no jump has begun.
C13_JumpIntentStartsWithoutImpulse ==
    [][(gameState \in {"start", "dead"} /\ JumpIntent)
         => /\ RunReset
            /\ player'.velocityY = 0
            /\ ~player'.isJumping
            /\ UNCHANGED <<jumpHeld, jumpHeldTime, jumps>>
            /\ Becomes(StartGame(This))]_vars

\* the first run, just started, at rest and with no jump begun
C13_Witness ==
    /\ gameState = "playing"
    /\ cameraX = 0
    /\ player.y = player.groundY
    /\ player.velocityY = 0
    /\ ~player.isJumping
    /\ player.rotationSpeed = 0
    /\ ~jumpHeld
    /\ highScore = Number(0)
    /\ store = NoItem

----------------------------------------------------------------------------
(* C14 *)

\* C14: whatever the store holds, loadHighScore() returns a non-negative
\* integer: 0 when the key is absent or access throws, the stored integer for
\* a decimal integer, and 0 for a corrupted (non-numeric) string; so does the
\* high score the constructor loaded and die()/win() maintain.
C14_LoadIsNonNegativeInteger ==
    LET loaded == LoadHighScore(This) IN
    /\ ~loaded.isNaN
    /\ loaded.value >= 0
    /\ (storageThrows \/ ~store.has) => loaded = Number(0)
    /\ loaded.value = StoredBest(store)
    /\ ~highScore.isNaN
    /\ highScore.value >= 0

----------------------------------------------------------------------------
(* C15 *)

\* C15: with storage available, loadHighScore() on an empty store returns 0,
\* and after saveHighScore(n), for any n from 0 up, loadHighScore() returns n
\* (and the slot holds the decimal digits of n).
C15_SaveLoadRoundTrip ==
    [][/\ \A n \in 0..MaxSaved :
            (~storageThrows /\ highScore' = highScore /\ SaveHighScoreCall(n))
               => /\ LoadHighScore(This)' = Number(n)
                  /\ store'.has
                  /\ \A i \in 1..Len(store'.text) : IsDigit(store'.text[i])
       /\ (~storageThrows /\ ~store.has /\ LoadHighScoreCall)
              => highScore' = Number(0)
       /\ (~storageThrows /\ LoadHighScoreCall /\ ~highScore'.isNaN)
              => store' = store /\ highScore'.value = StoredBest(store)]_vars

\* 42 was saved and then loaded
C15_Witness ==
    /\ ~storageThrows
    /\ store = Item(<<"4", "2">>)
    /\ highScore = Number(42)

----------------------------------------------------------------------------
(* C16 *)

\* C16: a frame in Start, Dead or Win leaves gameState, cameraX, score,
\* distance, every player field, the particle list and the positions of the
\* parallax elements unchanged.
C16_TickOnlyInPlaying ==
    [][(gameState \in {"start", "dead", "win"} /\ Frame)
         => UNCHANGED <<gameState, cameraX, score, distance, player, particles,
                        parallax>>]_vars

\* the level has been completed with the followed elements moved by the 850
\* frames of the run, and frames keep coming in Win
C16_Witness ==
    /\ gameState = "win"
    /\ parallax # TrackedElements
    /\ parallax[1].x = TrackedElements[1].x - 850 * ParallaxShift(2)
    /\ page.lastFrame = <<"update", "render">>

\* a run has ended in Dead with the followed elements moved
C16_WitnessDead ==
    /\ gameState = "dead"
    /\ parallax[3].x < TrackedElements[3].x

----------------------------------------------------------------------------
(* C17 *)

\* C17: a jump release, in every game state, leaves gameState, cameraX, score,
\* distance, every player field and the particles unchanged and clears the
\* held flag; and while the flag is clear a jump intent in Playing either
\* starts a new jump from the ground (velocityY becomes the jump power) or
\* leaves velocityY as it is: no hold bonus is added.
C17_ReleaseOnlyClearsHeld ==
    [][/\ JumpEndEvent
            => /\ UNCHANGED <<gameState, cameraX, score, distance, player, particles>>
               /\ ~jumpHeld'
       /\ (gameState = "playing" /\ ~jumpHeld /\ JumpIntent)
            => \/ player'.velocityY = player.velocityY
               \/ /\ ~player.isJumping
                  /\ player.y = player.groundY
                  /\ player'.velocityY = -16 * 20]_vars

\* the input was released right after the impulse, with the jump still under
\* way: the jump intents that follow find the flag clear
C17_Witness ==
    /\ gameState = "playing"
    /\ player.isJumping
    /\ ~jumpHeld
    /\ jumpHeldTime = 0
    /\ player.velocityY = -320

----------------------------------------------------------------------------
(* C18 *)

\* C18: a frame callback while the page is hidden runs neither update() nor
\* render() and changes nothing of the simulation; a frame callback on the
\* visible page runs one update and one render, so that in Playing cameraX
\* advances by exactly scrollSpeed, however many frame periods were missed
\* while the page was hidden.
C18_HiddenFramesSkipped ==
    [][/\ (page.hidden /\ Frame)
            => /\ UNCHANGED instanceVars
               /\ page'.lastFrame = <<>>
       /\ (~page.hidden /\ Frame)
            => /\ page'.lastFrame = <<"update", "render">>
               /\ gameState = "playing" => cameraX' = cameraX + 5
               /\ gameState # "playing" => cameraX' = cameraX]_vars

\* the first frame on the visible page after frame periods were missed has
\* run, in a run that was under way when the page was hidden
C18_Witness ==
    /\ ~page.hidden
    /\ page.late > 0
    /\ page.lastFrame = <<"update", "render">>
    /\ gameState = "playing"
    /\ cameraX = 55

----------------------------------------------------------------------------
(* C19 *)

\* C19: however often initGame() is called (by setupGame(), by the host, by
\* the fallback of the global startGame()), at most one instance exists and
\* one frame loop runs; a call made when an instance exists changes nothing;
\* and the calls a frame callback makes are none, or one update() followed by
\* one render().
C19_SingleInstance ==
    [][/\ page'.instances <= 1
       /\ page'.loops = page'.instances
       /\ (HasInstance /\ InitGameCall) => UNCHANGED vars
       /\ (HasInstance /\ SetupGameCall) => UNCHANGED <<instanceVars>>
       /\ page'.lastFrame \in {<<>>, <<"update", "render">>}]_vars

\* the fallback of the global startGame() built the instance (its retry timer
\* is still pending) and setupGame() ran after it: initGame() was called twice
C19_Witness ==
    /\ page.setup
    /\ page.startTimers = 1
    /\ page.instances = 1
    /\ page.loops = 1
    /\ gameState = "playing"

----------------------------------------------------------------------------
(* C20 *)

\* C20: on a page without the canvas element no instance is created and no
\* frame loop started, whatever commands are issued; no game state, Playing
\* included, is ever reached; and once initGame() has run (in setupGame() or
\* in the fallback of the global startGame()) the diagnostic is reported.
C20_NoCanvasNoGame ==
    ~page.canvas =>
        /\ page.instances = 0
        /\ page.loops = 0
        /\ gameState = "none"
        /\ gameState # "playing"
        /\ (page.setup \/ page.startTimers > 0
              \/ "Failed to start game. Please refresh the page." \in page.diagnostics)
             => "Canvas element not found" \in page.diagnostics

\* no canvas: setupGame() has run, and start and restart commands were issued
\* whose retry timers have fired
C20_Witness ==
    /\ ~page.canvas
    /\ page.setup
    /\ page.startTimers = 0
    /\ page.restartTimers = 0
    /\ page.diagnostics = {"Canvas element not found",
                           "Failed to start game. Please refresh the page.",
                           "Game instance not found. Please refresh the page."}

----------------------------------------------------------------------------
\* C21. A page with an audio context and a store and a page with neither,
\* given the same events and the same frames, are in the same game state with
\* the same camera position, score and player kinematics at every moment.
C21_SameTrajectory == Trajectory(This) = Trajectory(twin)

\* both runs have ended at the first obstacle; this page has sounded its beat
\* and read its store, and the two pages remember different best scores
C21_Witness ==
    /\ gameState = "dead" /\ twin.gameState = "dead"
    /\ score = 37
    /\ audio.ready /\ audio.beats > 0
    /\ store.has /\ ~twin.store.has
    /\ highScore # twin.highScore

----------------------------------------------------------------------------
\* C22. Once a key or touch has delivered a jump-start event, a jump-start
\* event from the mouse delivered before the next tick has no further effect:
\* state, camera, score and player are as the first event left them.
C22_SecondSourceNoEffect ==
    [][JumpStartEvent => Trajectory(MouseDown(This))' = Trajectory(This)']_vars

----------------------------------------------------------------------------
\* C23. checkCollision() answers true exactly when the two rectangles share a
\* stretch of positive length on the x axis and on the y axis; rectangles that
\* only touch along an edge or at a corner (a shared stretch of length 0) do
\* not collide.
C23_CollisionIsPositiveOverlap ==
    probe.called =>
        LET a == probe.args IN
        probe.hit <=> /\ Shared(a[1], a[3], a[5], a[7]) > 0
                      /\ Shared(a[2], a[4], a[6], a[8]) > 0

\* checkCollision() has answered false for two rectangles that share an edge:
\* the right side of the first is the left side of the second
C23_Witness ==
    /\ probe.called
    /\ ~probe.hit
    /\ probe.args[1] + probe.args[3] = probe.args[5]
    /\ Shared(probe.args[2], probe.args[4], probe.args[6], probe.args[8]) > 0

----------------------------------------------------------------------------
\* C24. After every tick in Playing, a player that is not jumping is at or
\* above its ground rest position (player.y <= player.groundY); and a tick
\* that resolves the ground collision leaves velocityY = 0 and isJumping
\* false.
C24_GroundResolved ==
    [][(gameState = "playing" /\ Frame)
          => /\ ~player'.isJumping => player'.y <= player'.groundY
             /\ ResolvesGround => player'.velocityY = 0 /\ ~player'.isJumping]_vars

\* a player that is not jumping has been moved by a tick and is falling
\* towards a rest position still below it
C24_Witness ==
    /\ gameState = "playing"
    /\ ~player.isJumping
    /\ player.velocityY > 0
    /\ player.y < player.groundY

----------------------------------------------------------------------------
\* C25. The background animation resumes whenever the page is visible again:
\* while the page is visible an animate callback is pending, so that another
\* frame (update and draw) runs, also after an animate callback has run while
\* the page was hidden.
C25_VisibleBackdropAnimates == ~page.hidden => page.backdrop.pending > 0

----------------------------------------------------------------------------
\* C26. A tick clamps the player to the ground only when its bottom edge
\* (player.y + player.height) has reached the ground line: a player whose
\* bottom edge is above the ground line after the integration step (and which
\* is below the ceiling) keeps the integrated position and velocity, so the
\* tick after a jump from rest leaves the player airborne.
C26_ClampOnlyAtGroundLine ==
    [][(gameState = "playing" /\ Frame)
          => LET p == Integrate(player) IN
             (p.y + Px(playerHeight) < GroundLine /\ p.y >= 0)
                => /\ player'.y = p.y
                   /\ player'.velocityY = p.velocityY
                   /\ player'.y < player'.groundY]_vars

----------------------------------------------------------------------------
\* C27. A jump impulse is applied only to a player that is not jumping and
\* whose bottom edge is within 2 px of the ground line (no platform exists in
\* the level): never to a player in the air, also after a resize during play.
C27_NoMidAirJump ==
    [][(~player.isJumping /\ player'.isJumping)
          => player.y + Px(playerHeight) >= GroundLine - Px(2)]_vars

\* C28. A tick that finds the jump input held, the player airborne and the
\* hold counter under the cap, and leaves the player airborne, applies one
\* hold boost: velocityY changes by gravity and the boost, and the hold
\* counter advances, without any new press event.
C28_HoldBoostEveryTick ==
    [][(/\ gameState = "playing"
        /\ player.isJumping
        /\ jumpHeld
        /\ (jumpHeldTime + 1) * 16 < maxJumpHold
        /\ player'.isJumping
        /\ Frame)
          => /\ player'.velocityY - (player.velocityY + gravity)
                   \in {holdJumpBonus, -holdJumpBonus}
             /\ jumpHeldTime' = jumpHeldTime + 1]_vars

----------------------------------------------------------------------------
\* C29. In every reachable state the score and the distance are both the
\* camera position divided by 10, rounded down.
C29_ScoreIsDistance ==
    /\ score = distance
    /\ score = cameraX \div 10

\* three ticks into a run: camera at 15, score and distance 1
C29_Witness ==
    /\ gameState = "playing"
    /\ cameraX = 15
    /\ score = 1
    /\ distance = 1

----------------------------------------------------------------------------
\* C30. In every reachable state the particle list holds at most 50
\* particles, and every particle in it has life left (life > 0).
C30_ParticlesBounded ==
    /\ Len(particles) <= 50
    /\ \A i \in 1..Len(particles) : particles[i].life > 0

\* die() has just added its 20-particle burst to the trail of a run
C30_Witness ==
    /\ gameState = "dead"
    /\ Len(particles) > 20
    /\ particles[Len(particles)].life = 30
    /\ particles[1].life < 20

----------------------------------------------------------------------------
\* C31. When the descending player qualifies to land on one or more platforms
\* of the list, the platform loop leaves it on top of the first of them in
\* list order, at rest and not jumping: no later platform moves it.  When it
\* qualifies on none, the loop leaves it as it was.
C31_FirstPlatformWins ==
    probe.called =>
        LET p == probe.args[1]
            list == probe.args[2]
            q == Qualifying(p, list, probe.args[3])
        IN IF q = {} THEN probe.landed = p
           ELSE /\ probe.landed.y = list[Least(q)].y - Px(playerHeight)
                /\ probe.landed.velocityY = 0
                /\ ~probe.landed.isJumping

\* the player qualified on both platforms of the list, whose tops differ, and
\* stands on the first
C31_Witness ==
    /\ probe.called
    /\ Qualifying(probe.args[1], probe.args[2], probe.args[3]) = {1, 2}
    /\ probe.args[2][1].y > probe.args[2][2].y
    /\ probe.landed.y = probe.args[2][1].y - Px(playerHeight)

----------------------------------------------------------------------------
\* C32. At the end of a tick in Playing, every parallax element that is off
\* the left of the viewport (on-screen right edge below 0) has been moved to
\* the right edge of the level (x >= level.width).
C32_OffscreenElementWraps ==
    [][(gameState = "playing" /\ gameState' = "playing" /\ cameraX' # cameraX)
          => \A i \in 1..Len(parallax') :
                ScreenRightEdge(parallax'[i], cameraX') < 0
                    => parallax'[i].x >= Hp(level.width)]_vars

----------------------------------------------------------------------------
\* C33. Every run ends within ceil(level.width / scrollSpeed) = 851 ticks:
\* in Playing between 1 and 851 ticks are left to the level end, and every
\* tick in Playing either ends the run (Dead or Win) or leaves one tick less
\* (a step within Playing that does not is not a tick), whatever jump inputs
\* come between the ticks.
C33_RunTerminates ==
    [][/\ gameState' = "playing" => (TicksLeft' >= 1 /\ TicksLeft' <= 851)
       /\ (gameState = "playing" /\ gameState' \notin {"dead", "win"})
             => \/ gameState' = "playing" /\ TicksLeft' = TicksLeft - 1
                \/ UNCHANGED vars
                \/ ~Frame]_vars

\* a run one tick before the level end
C33_Witness == gameState = "playing" /\ TicksLeft = 1

----------------------------------------------------------------------------
\* C34. With a working store, no step lowers the high score the store holds,
\* and the store is written only by the end of a run (Playing to Dead or Win)
\* whose score is strictly greater than the value the store held, which the
\* score then replaces.
C34_StoredHighScoreMonotone ==
    [][~storageThrows
          => /\ StoredBest(store') >= StoredBest(store)
             /\ store' # store
                   => /\ gameState = "playing"
                      /\ gameState' \in {"dead", "win"}
                      /\ score' > StoredBest(store)
                      /\ StoredBest(store') = score']_vars

\* a run has ended at the first obstacle after an earlier run reached the
\* level end: the store keeps the greater score
C34_Witness ==
    /\ ~storageThrows
    /\ gameState = "dead"
    /\ score = 37
    /\ store = Item(NumberToString(425))

----------------------------------------------------------------------------
\* C35. When a run ends in Dead with the store accessible, the
\* new-high-score indicator is displayed afterwards exactly when the run's
\* score is strictly greater than the high score the store held before.
C35_IndicatorOnNewHighScore ==
    [][(gameState = "playing" /\ gameState' = "dead" /\ ~storageThrows)
          => (indicator' <=> score' > StoredBest(store))]_vars

----------------------------------------------------------------------------
\* C36. At any time at most one beat loop of the background music is active:
\* at most one playBeat timer is pending.
C36_SingleBeatLoop == audio.beats <= 1

====
